---------------------------- MODULE Spec2Model ----------------------------
(***************************************************************************)
(* A model of koala-dns: the expiry-ordered answer cache                   *)
(* (src/cache/mod.rs), the bounds-checked buffer cursor (src/buf.rs) and   *)
(* the per-query request state machine (src/request/tcp.rs).               *)
(*                                                                         *)
(* Time is a counter of clock ticks; one second is TicksPerSec ticks, so   *)
(* that a SteadyTime between two whole seconds exists.                     *)
(***************************************************************************)
EXTENDS Integers, Sequences, FiniteSets, TLC

VARIABLES
    map,              \* Cache.map : CacheKey -> CacheEntry (a function on the stored keys)
    keys,             \* Cache.keys: sequence of CacheExpiry, the expiry index
    now,              \* SteadyTime::now(), in ticks
    debug_assert_ok,  \* value of the debug_assert! condition at its last evaluation
    buf,              \* BufRead::buf(): the bytes of the buffer
    pos,              \* DirectAccessBuf::pos(): the cursor
    requests,         \* the request table: the in-flight requests by token
    last              \* the last call made and what it returned

vars == <<map, keys, now, debug_assert_ok, buf, pos, requests, last>>
cache_vars == <<map, keys, now, debug_assert_ok>>
buf_vars == <<buf, pos>>

(***************************************************************************)
(* Bounds of the model.                                                    *)
(***************************************************************************)
MaxClock == 3
MaxKeys == 2
MaxLen == 5

(***************************************************************************)
(* The cache: src/cache/mod.rs                                             *)
(***************************************************************************)
\* CacheKey values: (qname, qtype, qclass); equality uses all three fields.
CacheKeys ==
    { [qname |-> "yahoo.com", qtype |-> 1, qclass |-> 1],
      [qname |-> "lycos.com", qtype |-> 1, qclass |-> 1],
      [qname |-> "yahoo.com", qtype |-> 28, qclass |-> 1] }

\* The answer sets an entry may own.
Answers == {"a1"}

\* The TTLs (seconds) an upstream answer may carry.
Ttls == {0, 1, 2, 3}

\* Duration::seconds(1), in ticks of the steady clock.
TicksPerSec == 2

\* CacheEntry::new: expiry = SteadyTime::now() + Duration::seconds(ttl).
CacheEntry_new(key, answers, ttl) ==
    [key |-> key, answers |-> answers, ttl |-> ttl,
     expiry |-> now + ttl * TicksPerSec]

\* Mutant of calc_ttl: a started second counts as a whole one.
calc_ttl_rounded_up(e) ==
    IF e.expiry > now
    THEN (e.expiry - now + TicksPerSec - 1) \div TicksPerSec
    ELSE 0

\* CacheEntry::calc_ttl: (expiry - now).num_seconds() truncates the positive
\* duration to whole seconds; the cast to u32 keeps a value that is at most
\* the entry's u32 ttl.
calc_ttl(e) ==
    IF e.expiry > now
    THEN (e.expiry - now) \div TicksPerSec
    ELSE 0

\* CacheExpiry::new
CacheExpiry_new(key, expiry) == [key |-> key, expiry |-> expiry]

\* impl Ord for CacheExpiry: cmp compares the expiry alone.
CacheExpiry_le(a, b) == a.expiry <= b.expiry

\* Vec::insert(0, x)
insert_front(s, x) == <<x>> \o s

\* One step of a stable insertion sort: x goes after every element of the
\* sorted sequence s that is not greater than it.
RECURSIVE sort_place(_, _)
sort_place(s, x) ==
    IF s = <<>> THEN <<x>>
    ELSE IF CacheExpiry_le(Head(s), x)
         THEN <<Head(s)>> \o sort_place(Tail(s), x)
         ELSE <<x>> \o s

\* Mutant of sort: the index is left as the insertion made it.
sort_skipped(s) == s

\* Vec::sort(): a stable sort under CacheExpiry's Ord.
RECURSIVE sort(_)
sort(s) ==
    IF s = <<>> THEN <<>>
    ELSE sort_place(sort(SubSeq(s, 1, Len(s) - 1)), s[Len(s)])

\* HashMap::remove
map_remove(m, k) == [x \in (DOMAIN m) \ {k} |-> m[x]]

\* Mutants of or_insert: the value is dropped / an existing value is replaced.
or_insert_dropped(m, k, v) ==
    IF m = <<>> THEN [x \in {k} |-> v] ELSE m
or_insert_replacing(m, k, v) ==
    [x \in (DOMAIN m) \cup {k} |-> IF x = k THEN v ELSE m[x]]

\* HashMap::entry(key).or_insert(val): the value is stored only if the key is absent.
or_insert(m, k, v) ==
    IF k \in DOMAIN m THEN m
    ELSE [x \in (DOMAIN m) \cup {k} |-> IF x = k THEN v ELSE m[x]]

\* Mutant of remove_expired_map: the walk stops at expiry >= now.
RECURSIVE remove_expired_map_early(_, _, _)
remove_expired_map_early(m, ks, t) ==
    IF ks = <<>> THEN m
    ELSE IF Head(ks).expiry >= t THEN m
         ELSE remove_expired_map_early(map_remove(m, Head(ks).key), Tail(ks), t)

\* Cache::remove_expired_map: walk the index from the front, removing each
\* projection's key from the map, and stop at the first expiry > now.
RECURSIVE remove_expired_map(_, _, _)
remove_expired_map(m, ks, t) ==
    IF ks = <<>> THEN m
    ELSE IF Head(ks).expiry > t THEN m
         ELSE remove_expired_map(map_remove(m, Head(ks).key), Tail(ks), t)

\* Mutant of keep: a projection is dropped one tick before its expiry.
keep_until_last_tick(p, t) == p.expiry > t + 1

\* self.keys.retain(|cache_expiry| cache_expiry.expiry > now)
keep(p, t) == p.expiry > t
retain(ks, t) == SelectSeq(ks, LAMBDA p : keep(p, t))

\* Cache::remove_expired, as a function of the cache and the clock: the new
\* map and index, the returned count and the debug assertion's condition.
remove_expired(m, ks, t) ==
    LET key_count == Len(ks)
        m2 == remove_expired_map(m, ks, t)
        ks2 == retain(ks, t)
    IN [map |-> m2, keys |-> ks2,
        assert |-> (Cardinality(DOMAIN m2) = Len(ks2)),
        ret |-> key_count - Len(ks2)]

\* Cache::upsert, as a function of the cache, the clock and its arguments.
upsert(m, ks, t, key, val) ==
    LET swept == remove_expired(m, ks, t)
        expiry_data == CacheExpiry_new(key, val.expiry)
    IN [map |-> or_insert(swept.map, key, val),
        keys |-> sort(insert_front(swept.keys, expiry_data)),
        assert |-> swept.assert]

\* Mutant of get: an entry whose expiry has passed is not returned.
get_unexpired(key) ==
    IF key \in DOMAIN map /\ map[key].expiry > now THEN {map[key]} ELSE {}

\* Cache::get / contains / len
get(key) == IF key \in DOMAIN map THEN {map[key]} ELSE {}
contains(key) == key \in DOMAIN map
len == Cardinality(DOMAIN map)

\* The keys that have a projection in the index.
index_keys(ks) == { ks[i].key : i \in 1..Len(ks) }

\* Cache::default
CacheInit ==
    /\ map = <<>>
    /\ keys = <<>>
    /\ now = 0
    /\ debug_assert_ok = TRUE
    /\ last = [op |-> "default"]
    /\ buf = <<>>
    /\ pos = 0
    /\ requests = <<>>

\* A call of Cache::upsert(key, CacheEntry::new(key, answers, ttl)): the entry
\* is built for the key it is stored under, as in test_cache.
UpsertCall(key, answers, ttl) ==
    LET val == CacheEntry_new(key, answers, ttl)
        r == upsert(map, keys, now, key, val)
    IN /\ map' = r.map
       /\ keys' = r.keys
       /\ debug_assert_ok' = r.assert
       /\ last' = [op |-> "upsert", key |-> key]
       /\ UNCHANGED <<now, buf_vars, requests>>

\* Any upsert, while the index stays within MaxKeys projections.
Upsert ==
    \E key \in CacheKeys, answers \in Answers, ttl \in Ttls :
        /\ Len(retain(keys, now)) < MaxKeys
        /\ UpsertCall(key, answers, ttl)

\* An upsert of a key that has no projection in the index: the callers that
\* store pairwise distinct keys.
UpsertDistinct ==
    \E key \in CacheKeys, answers \in Answers, ttl \in Ttls :
        /\ key \notin index_keys(keys)
        /\ UpsertCall(key, answers, ttl)

\* A call of Cache::remove_expired().
RemoveExpired ==
    LET r == remove_expired(map, keys, now)
    IN /\ map' = r.map
       /\ keys' = r.keys
       /\ debug_assert_ok' = r.assert
       /\ last' = [op |-> "remove_expired", ret |-> r.ret]
       /\ UNCHANGED <<now, buf_vars, requests>>

\* A call of Cache::get(key): a read.
Get ==
    /\ last' = [op |-> "get"]
    /\ UNCHANGED <<cache_vars, buf_vars, requests>>

\* A call of calc_ttl on a stored entry: a read.
CalcTtl ==
    /\ map # <<>>
    /\ last' = [op |-> "calc_ttl"]
    /\ UNCHANGED <<cache_vars, buf_vars, requests>>

\* The steady clock advances by one tick.
Tick ==
    /\ now < MaxClock
    /\ now' = now + 1
    /\ last' = [op |-> "tick"]
    /\ UNCHANGED <<map, keys, debug_assert_ok, buf_vars, requests>>

CacheNext == Upsert \/ RemoveExpired \/ Get \/ CalcTtl \/ Tick

SpecCache == CacheInit /\ [][CacheNext]_vars

\* The cache as used with pairwise distinct keys.
ExpiryNext == UpsertDistinct \/ RemoveExpired \/ Get \/ Tick

SpecExpiry == CacheInit /\ [][ExpiryNext]_vars

(***************************************************************************)
(* The buffer cursor: src/buf.rs                                           *)
(*                                                                         *)
(* A usize is an integer; a negative x stands for the usize 2^64 + x, so   *)
(* that the values next to usize::MAX and the wrap of an addition exist.   *)
(* A u32 is its two 16-bit halves [hi, lo]; a u16 and a u8 are integers.   *)
(* The byte at index i of the slice is buf[i + 1].                         *)
(***************************************************************************)
\* The byte values the model draws from.
Bytes == {0, 255}

\* u16 values: 0, 0x00FF, 0xFF00, 0xFFFF.
U16Vals == {0, 255, 65280, 65535}

\* u32 values: 0, 0x00FF0000, 0xFF0000FF, 0xFFFF00FF.
U32Vals ==
    { [hi |-> 0, lo |-> 0], [hi |-> 255, lo |-> 0],
      [hi |-> 65280, lo |-> 255], [hi |-> 65535, lo |-> 255] }

\* The slices handed to write_bytes.
Slices == { <<>>, <<255>>, <<255, 0>>, <<0, 255, 255>> }

\* usize arguments: the small ones, and usize::MAX and usize::MAX - 1.
UsizeArgs == (0..(MaxLen + 1)) \cup {-1, -2}

\* Option<T>
None == [some |-> FALSE]
Some(x) == [some |-> TRUE, val |-> x]

\* a > b on usize
usize_gt(a, b) ==
    IF a < 0 /\ b >= 0 THEN TRUE
    ELSE IF a >= 0 /\ b < 0 THEN FALSE
    ELSE a > b

\* a + b on usize overflows (a is a cursor, 0 <= a)
usize_add_overflows(a, b) == b < 0 /\ a + b >= 0

\* Mutant of seek: the bound is off by one.
seek_off_by_one(b, p, target) ==
    IF usize_gt(target, Len(b) + 1)
    THEN [pos |-> p, ret |-> FALSE]
    ELSE [pos |-> target, ret |-> TRUE]

\* DirectAccessBuf::seek
seek(b, p, target) ==
    IF usize_gt(target, Len(b))
    THEN [pos |-> p, ret |-> FALSE]
    ELSE [pos |-> target, ret |-> TRUE]

\* DirectAccessBuf::advance, the addition not overflowing or wrapping
advance(b, p, count) == seek(b, p, p + count)

\* DirectAccessBuf::reset
reset(b, p) == seek(b, p, 0)

\* BufRead::peek_u8
peek_u8(b, p) == IF p >= Len(b) THEN None ELSE Some(b[p + 1])

\* BufRead::next_u8
next_u8(b, p) ==
    LET byte == peek_u8(b, p)
    IN IF byte.some
       THEN [pos |-> advance(b, p, 1).pos, ret |-> byte]
       ELSE [pos |-> p, ret |-> None]

\* BufRead::next_bytes: up to `bytes` next_u8 calls, stopping at the first None.
RECURSIVE next_bytes_loop(_, _, _, _)
next_bytes_loop(b, p, bytes, slice) ==
    IF bytes = 0 THEN [pos |-> p, ret |-> slice]
    ELSE LET byte == next_u8(b, p)
         IN IF byte.ret.some
            THEN next_bytes_loop(b, byte.pos, bytes - 1, Append(slice, byte.ret.val))
            ELSE [pos |-> byte.pos, ret |-> slice]

next_bytes(b, p, bytes) == next_bytes_loop(b, p, bytes, <<>>)

\* ((byte1 as u16) << 8) | byte2 as u16
u16_from(byte1, byte2) == byte1 * 256 + byte2

\* b0 << 24 | b1 << 16 | b2 << 8 | b3, on u32
u32_from(b0, b1, b2, b3) == [hi |-> b0 * 256 + b1, lo |-> b2 * 256 + b3]

\* Mutant of next_u16: the bytes are combined in the other order.
next_u16_swapped(b, p) ==
    IF p + 1 >= Len(b) THEN [pos |-> p, ret |-> None]
    ELSE [pos |-> advance(b, p, 2).pos, ret |-> Some(u16_from(b[p + 2], b[p + 1]))]

\* BufRead::next_u16
next_u16(b, p) ==
    IF p + 1 >= Len(b) THEN [pos |-> p, ret |-> None]
    ELSE LET byte1 == b[p + 1]
             byte2 == b[p + 2]
         IN [pos |-> advance(b, p, 2).pos, ret |-> Some(u16_from(byte1, byte2))]

\* BufRead::next_u32
next_u32(b, p) ==
    IF p + 3 >= Len(b) THEN [pos |-> p, ret |-> None]
    ELSE LET val == u32_from(b[p + 1], b[p + 2], b[p + 3], b[p + 4])
         IN [pos |-> advance(b, p, 4).pos, ret |-> Some(val)]

\* (bytes >> n) as u8 on u16, n in {0, 8}
u16_byte(bytes, n) == IF n = 8 THEN (bytes \div 256) % 256 ELSE bytes % 256

\* (bytes >> n) as u8 on u32, n in {0, 8, 16, 24}
u32_byte(bytes, n) ==
    IF n >= 16 THEN u16_byte(bytes.hi, n - 16) ELSE u16_byte(bytes.lo, n)

\* BufWrite::write_u8
write_u8(b, p, byte) ==
    IF p >= Len(b) THEN [buf |-> b, pos |-> p, ret |-> FALSE]
    ELSE [buf |-> [b EXCEPT ![p + 1] = byte],
          pos |-> advance(b, p, 1).pos, ret |-> TRUE]

\* Mutant of write_u16: only the first byte's room is checked, and the
\* second byte is written when it fits.
write_u16_partial(b, p, bytes) ==
    IF p >= Len(b) THEN [buf |-> b, pos |-> p, ret |-> FALSE]
    ELSE IF p + 1 >= Len(b)
         THEN [buf |-> [b EXCEPT ![p + 1] = u16_byte(bytes, 8)],
               pos |-> p, ret |-> FALSE]
         ELSE [buf |-> [b EXCEPT ![p + 1] = u16_byte(bytes, 8),
                                 ![p + 2] = u16_byte(bytes, 0)],
               pos |-> advance(b, p, 2).pos, ret |-> TRUE]

\* BufWrite::write_u16
write_u16(b, p, bytes) ==
    IF p + 1 >= Len(b) THEN [buf |-> b, pos |-> p, ret |-> FALSE]
    ELSE [buf |-> [b EXCEPT ![p + 1] = u16_byte(bytes, 8),
                            ![p + 2] = u16_byte(bytes, 0)],
          pos |-> advance(b, p, 2).pos, ret |-> TRUE]

\* Mutant of write_u32: the bytes are stored least significant first.
write_u32_little_endian(b, p, bytes) ==
    IF p + 3 >= Len(b) THEN [buf |-> b, pos |-> p, ret |-> FALSE]
    ELSE [buf |-> [b EXCEPT ![p + 1] = u32_byte(bytes, 0),
                            ![p + 2] = u32_byte(bytes, 8),
                            ![p + 3] = u32_byte(bytes, 16),
                            ![p + 4] = u32_byte(bytes, 24)],
          pos |-> advance(b, p, 4).pos, ret |-> TRUE]

\* BufWrite::write_u32
write_u32(b, p, bytes) ==
    IF p + 3 >= Len(b) THEN [buf |-> b, pos |-> p, ret |-> FALSE]
    ELSE [buf |-> [b EXCEPT ![p + 1] = u32_byte(bytes, 24),
                            ![p + 2] = u32_byte(bytes, 16),
                            ![p + 3] = u32_byte(bytes, 8),
                            ![p + 4] = u32_byte(bytes, 0)],
          pos |-> advance(b, p, 4).pos, ret |-> TRUE]

\* BufWrite::write_bytes: the loop of write_u8 calls, their results dropped.
RECURSIVE write_bytes_loop(_, _, _)
write_bytes_loop(b, p, bytes) ==
    IF bytes = <<>> THEN [buf |-> b, pos |-> p, ret |-> TRUE]
    ELSE LET w == write_u8(b, p, Head(bytes))
         IN write_bytes_loop(w.buf, w.pos, Tail(bytes))

\* Mutant of write_bytes: the room for the whole slice is not checked first.
write_bytes_unchecked(b, p, bytes) == write_bytes_loop(b, p, bytes)

write_bytes(b, p, bytes) ==
    IF p + Len(bytes) > Len(b) THEN [buf |-> b, pos |-> p, ret |-> FALSE]
    ELSE write_bytes_loop(b, p, bytes)

\* All byte sequences of length n.
RECURSIVE ByteSeqs(_)
ByteSeqs(n) ==
    IF n = 0 THEN { <<>> }
    ELSE { Append(s, x) : s \in ByteSeqs(n - 1), x \in Bytes }

\* A buffer of up to MaxLen bytes with the cursor at its start.
BufInit ==
    /\ buf \in UNION { ByteSeqs(n) : n \in 0..MaxLen }
    /\ pos = 0
    /\ last = [op |-> "new"]
    /\ map = <<>>
    /\ keys = <<>>
    /\ now = 0
    /\ debug_assert_ok = TRUE
    /\ requests = <<>>

Seek ==
    \E p \in UsizeArgs :
        LET r == seek(buf, pos, p)
        IN /\ pos' = r.pos
           /\ last' = [op |-> "seek", arg |-> p, ret |-> r.ret]
           /\ UNCHANGED <<buf, cache_vars, requests>>

\* advance(count); when pos + count overflows a debug build panics and a
\* release build wraps.
Advance ==
    \E count \in UsizeArgs :
        \/ LET r == advance(buf, pos, count)
           IN /\ pos' = r.pos
              /\ last' = [op |-> "advance", arg |-> count, ret |-> r.ret, panic |-> FALSE]
              /\ UNCHANGED <<buf, cache_vars, requests>>
        \/ /\ usize_add_overflows(pos, count)
           /\ last' = [op |-> "advance", arg |-> count, ret |-> FALSE, panic |-> TRUE]
           /\ UNCHANGED <<buf, pos, cache_vars, requests>>

Reset ==
    /\ pos' = reset(buf, pos).pos
    /\ last' = [op |-> "reset"]
    /\ UNCHANGED <<buf, cache_vars, requests>>

PeekU8 ==
    /\ last' = [op |-> "peek_u8", ret |-> peek_u8(buf, pos)]
    /\ UNCHANGED <<buf, pos, cache_vars, requests>>

NextU8 ==
    LET r == next_u8(buf, pos)
    IN /\ pos' = r.pos
       /\ last' = [op |-> "next_u8", ret |-> r.ret]
       /\ UNCHANGED <<buf, cache_vars, requests>>

NextU16 ==
    LET r == next_u16(buf, pos)
    IN /\ pos' = r.pos
       /\ last' = [op |-> "next_u16", ret |-> r.ret]
       /\ UNCHANGED <<buf, cache_vars, requests>>

NextU32 ==
    LET r == next_u32(buf, pos)
    IN /\ pos' = r.pos
       /\ last' = [op |-> "next_u32", ret |-> r.ret]
       /\ UNCHANGED <<buf, cache_vars, requests>>

NextBytes ==
    \E bytes \in 0..(MaxLen + 1) :
        LET r == next_bytes(buf, pos, bytes)
        IN /\ pos' = r.pos
           /\ last' = [op |-> "next_bytes", arg |-> bytes, ret |-> r.ret]
           /\ UNCHANGED <<buf, cache_vars, requests>>

WriteU8 ==
    \E byte \in Bytes :
        LET r == write_u8(buf, pos, byte)
        IN /\ buf' = r.buf
           /\ pos' = r.pos
           /\ last' = [op |-> "write_u8", arg |-> byte, ret |-> r.ret]
           /\ UNCHANGED <<cache_vars, requests>>

WriteU16 ==
    \E bytes \in U16Vals :
        LET r == write_u16(buf, pos, bytes)
        IN /\ buf' = r.buf
           /\ pos' = r.pos
           /\ last' = [op |-> "write_u16", arg |-> bytes, ret |-> r.ret]
           /\ UNCHANGED <<cache_vars, requests>>

WriteU32 ==
    \E bytes \in U32Vals :
        LET r == write_u32(buf, pos, bytes)
        IN /\ buf' = r.buf
           /\ pos' = r.pos
           /\ last' = [op |-> "write_u32", arg |-> bytes, ret |-> r.ret]
           /\ UNCHANGED <<cache_vars, requests>>

WriteBytes ==
    \E bytes \in Slices :
        LET r == write_bytes(buf, pos, bytes)
        IN /\ buf' = r.buf
           /\ pos' = r.pos
           /\ last' = [op |-> "write_bytes", arg |-> bytes, ret |-> r.ret]
           /\ UNCHANGED <<cache_vars, requests>>

BufNext ==
    \/ Seek \/ Advance \/ Reset
    \/ PeekU8 \/ NextU8 \/ NextU16 \/ NextU32 \/ NextBytes
    \/ WriteU8 \/ WriteU16 \/ WriteU32 \/ WriteBytes

SpecBuf == BufInit /\ [][BufNext]_vars

(***************************************************************************)
(* The request state machine: src/request/tcp.rs                           *)
(*                                                                         *)
(* TcpRequest holds an optional upstream socket and a RequestBase.  The    *)
(* transitions of a request (its state, its event registrations and its    *)
(* deadline) are those of the design of the per-query state machine:       *)
(* RequestBase and the event loop are not part of tcp.rs, whose accept,    *)
(* forward and receive spell the transitions out in commented-out bodies.  *)
(***************************************************************************)
\* The tokens of the requests.
Tokens == {"t1", "t2"}

\* The questions the clients ask.
Questions ==
    { [qname |-> "yahoo.com", qtype |-> 1, qclass |-> 1],
      [qname |-> "lycos.com", qtype |-> 1, qclass |-> 1] }

\* RequestState
RequestStates ==
    {"New", "Accepted", "Forwarded", "ResponseReceived", "Complete", "Error"}

Terminal == {"Complete", "Error"}

\* TcpRequest::new_with: a new request has no upstream socket.
new_with(question) ==
    [state |-> "New", question |-> question, upstream_socket |-> FALSE,
     interest |-> "none", deadline |-> FALSE, response |-> FALSE,
     cached |-> FALSE]

\* RequestBase::error_with: the request ends in Error.
error_with(req) == [req EXCEPT !.state = "Error"]

\* accept: a cached answer is the response; otherwise an upstream socket is
\* allocated and registered for writability, or the request fails.
accept(req, hit, socket_ok) ==
    IF hit THEN [req EXCEPT !.state = "ResponseReceived", !.response = TRUE]
    ELSE IF socket_ok
         THEN [req EXCEPT !.state = "Accepted", !.upstream_socket = TRUE,
                          !.interest = "writable"]
         ELSE error_with(req)

\* Mutant of forward: a send that would block is taken for a failed send.
forward_failing_on_block(req, sent) ==
    IF sent = "sent"
    THEN [req EXCEPT !.state = "Forwarded", !.interest = "readable",
                     !.deadline = TRUE]
    ELSE error_with(req)

\* forward: one non-blocking send of the query to the upstream.
forward(req, sent) ==
    CASE sent = "sent" ->
            [req EXCEPT !.state = "Forwarded", !.interest = "readable",
                        !.deadline = TRUE]
      [] sent = "would_block" -> req
      [] sent = "error" -> error_with(req)

\* receive: one non-blocking receive on the upstream socket.
receive(req, received) ==
    CASE received = "data" ->
            [req EXCEPT !.state = "ResponseReceived", !.response = TRUE,
                        !.deadline = FALSE, !.cached = TRUE]
      [] received = "would_block" -> req
      [] received = "error" -> [error_with(req) EXCEPT !.deadline = FALSE]

\* Mutant of on_timeout: the request fails but keeps its socket registered.
on_timeout_leaking(req) == error_with(req)

\* The deadline fires: the request fails and releases its upstream socket
\* and its registrations.
on_timeout(req) ==
    [error_with(req) EXCEPT !.upstream_socket = FALSE, !.interest = "none",
                            !.deadline = FALSE]

\* send: the buffered response goes to the client; the request is over
\* whether or not the send succeeds.
send(req) == [req EXCEPT !.state = "Complete"]

\* Mutant of with_request: the new state of the request is also taken by
\* the other requests of the table.
with_request_shared(t, req) ==
    [x \in (DOMAIN requests) \cup {t} |->
        IF x = t THEN req ELSE [requests[x] EXCEPT !.state = req.state]]

\* The request table with the request of token t replaced.
with_request(t, req) ==
    [x \in (DOMAIN requests) \cup {t} |-> IF x = t THEN req ELSE requests[x]]

ReqInit ==
    /\ requests = <<>>
    /\ map = <<>>
    /\ keys = <<>>
    /\ now = 0
    /\ debug_assert_ok = TRUE
    /\ buf = <<>>
    /\ pos = 0
    /\ last = [op |-> "start"]

\* A client query arrives and gets a request and a token.
NewRequest ==
    \E t \in Tokens \ DOMAIN requests, question \in Questions :
        /\ requests' = with_request(t, new_with(question))
        /\ last' = [op |-> "new", token |-> t]
        /\ UNCHANGED <<cache_vars, buf_vars>>

\* ready() for a request in New.
Accept ==
    \E t \in DOMAIN requests, socket_ok \in BOOLEAN :
        /\ requests[t].state = "New"
        /\ requests' = with_request(t, accept(requests[t],
                                   contains(requests[t].question), socket_ok))
        /\ last' = [op |-> "accept", token |-> t]
        /\ UNCHANGED <<cache_vars, buf_vars>>

\* ready() on a writable event for a request in Accepted.
Forward ==
    \E t \in DOMAIN requests, sent \in {"sent", "would_block", "error"} :
        /\ requests[t].state = "Accepted"
        /\ requests[t].interest = "writable"
        /\ requests' = with_request(t, forward(requests[t], sent))
        /\ last' = [op |-> "forward", token |-> t, io |-> sent]
        /\ UNCHANGED <<cache_vars, buf_vars>>

\* ready() on a readable event for a request in Forwarded; an answer
\* received is stored in the cache under the request's question.
Receive ==
    \E t \in DOMAIN requests, received \in {"data", "would_block", "error"},
       answers \in Answers, ttl \in Ttls :
        /\ requests[t].state = "Forwarded"
        /\ requests[t].interest = "readable"
        /\ requests' = with_request(t, receive(requests[t], received))
        /\ last' = [op |-> "receive", token |-> t, io |-> received]
        /\ IF received = "data"
           THEN LET key == requests[t].question
                    r == upsert(map, keys, now, key, CacheEntry_new(key, answers, ttl))
                IN /\ map' = r.map
                   /\ keys' = r.keys
                   /\ debug_assert_ok' = r.assert
                   /\ UNCHANGED <<now, buf_vars>>
           ELSE UNCHANGED <<cache_vars, buf_vars>>

\* The deadline of a request fires.
Timeout ==
    \E t \in DOMAIN requests :
        /\ requests[t].deadline
        /\ requests[t].state \in {"Accepted", "Forwarded"}
        /\ requests' = with_request(t, on_timeout(requests[t]))
        /\ last' = [op |-> "timeout", token |-> t]
        /\ UNCHANGED <<cache_vars, buf_vars>>

\* The response is sent to the client.
Send ==
    \E t \in DOMAIN requests :
        /\ requests[t].state = "ResponseReceived"
        /\ requests' = with_request(t, send(requests[t]))
        /\ last' = [op |-> "send", token |-> t]
        /\ UNCHANGED <<cache_vars, buf_vars>>

\* The steady clock advances while requests are in flight.
ReqTick ==
    /\ now < MaxClock
    /\ now' = now + 1
    /\ last' = [op |-> "tick"]
    /\ UNCHANGED <<map, keys, debug_assert_ok, buf_vars, requests>>

ReqNext ==
    NewRequest \/ Accept \/ Forward \/ Receive \/ Timeout \/ Send \/ ReqTick

SpecReq == ReqInit /\ [][ReqNext]_vars

\* The event loop delivers every event that stays pending: the readiness
\* events of each token (New, writable, readable), its deadline, and the
\* reply to its client.
ReqFairness ==
    \A t \in Tokens :
        /\ WF_vars(Accept /\ last'.token = t)
        /\ WF_vars(Forward /\ last'.token = t)
        /\ WF_vars(Receive /\ last'.token = t)
        /\ WF_vars(Timeout /\ last'.token = t)
        /\ WF_vars(Send /\ last'.token = t)

SpecReqFair == ReqInit /\ [][ReqNext]_vars /\ ReqFairness

(***************************************************************************)
(* Properties of the cache.                                                *)
(***************************************************************************)
\* No two projections of the index carry the same key.
DistinctKeys(ks) == \A i, j \in 1..Len(ks) : ks[i].key = ks[j].key => i = j

\* C1: after any sequence of upsert and remove_expired calls the map holds as
\* many entries as the index holds projections, and the debug assertion at
\* the end of remove_expired never fails.
C1_MapLenEqualsIndexLen == len = Len(keys) /\ debug_assert_ok

\* C2: immediately after a remove_expired pass the keys stored in the map are
\* exactly the keys that appear in the index.
C2_KeySetsEqualAfterSweep ==
    last.op = "remove_expired" => DOMAIN map = index_keys(keys)

\* C3: an upsert(k, e) made while the cache holds no entry for k makes get(k)
\* return e and contains(k) true, and len() is one more than after the
\* upsert's own expiry sweep.
C3_UpsertAbsentKey ==
    [][\A key \in CacheKeys, answers \in Answers, ttl \in Ttls :
         (last'.op = "upsert" /\ last'.key = key /\ ~contains(key)
            /\ UpsertCall(key, answers, ttl)) =>
            /\ get(key)' = {CacheEntry_new(key, answers, ttl)}
            /\ contains(key)'
            /\ len' = Cardinality(DOMAIN remove_expired(map, keys, now).map) + 1]_vars

\* C3 witness: an upsert has just stored a second entry under a key that had
\* no projection (hence no entry) before the call.
C3_Witness ==
    /\ last.op = "upsert"
    /\ contains(last.key)
    /\ DistinctKeys(keys)
    /\ len = 2

\* C4: an upsert(k, e2) made while k is still stored (e1 survives the
\* upsert's sweep) leaves get(k) returning e1.
C4_NoOverwrite ==
    [][\A key \in CacheKeys, answers \in Answers, ttl \in Ttls :
         (last'.op = "upsert" /\ last'.key = key
            /\ key \in DOMAIN remove_expired(map, keys, now).map
            /\ UpsertCall(key, answers, ttl)) =>
            get(key)' = {map[key]}]_vars

\* C4 witness: after upsert(k, e2) the map still holds e1 although the
\* index carries e2's projection with another expiry.
C4_Witness ==
    /\ last.op = "upsert"
    /\ contains(last.key)
    /\ \E i \in 1..Len(keys) :
          /\ keys[i].key = last.key
          /\ keys[i].expiry # map[last.key].expiry
          /\ keys[i].expiry > now

\* C5: with pairwise distinct keys a remove_expired call removes exactly the
\* entries whose expiry is <= now, leaves the others as they were and
\* returns the number removed (1 when only the t1 entry of t1 < t2 < t3 has
\* expired).
C5_EvictionExact ==
    [][(last'.op = "remove_expired" /\ DistinctKeys(keys) /\ len = Len(keys)) =>
         /\ DOMAIN map' = {k \in DOMAIN map : map[k].expiry > now}
         /\ \A k \in DOMAIN map' : map'[k] = map[k]
         /\ last'.ret = Cardinality({k \in DOMAIN map : map[k].expiry <= now})]_vars

\* C5 witness: three entries stored at time 0 with TTLs 1 < 2 < 3; the clock
\* is past the first expiry and before the second, remove_expired has
\* returned 1 and the entries with TTLs 2 and 3 are still stored.
C5_Witness ==
    /\ last.op = "remove_expired"
    /\ last.ret = 1
    /\ now > 1 * TicksPerSec
    /\ now < 2 * TicksPerSec
    /\ len = 2
    /\ \E k2, k3 \in DOMAIN map :
          /\ map[k2].ttl = 2 /\ map[k2].expiry = 2 * TicksPerSec
          /\ map[k3].ttl = 3 /\ map[k3].expiry = 3 * TicksPerSec
    /\ \E k1 \in CacheKeys : get(k1) = {}

(***************************************************************************)
(* Properties of the buffer cursor.                                        *)
(***************************************************************************)
\* C6: next_u16 / next_u32 return no value and leave pos where it is when
\* fewer than 2 / 4 bytes remain; otherwise they return the integer whose
\* bytes, most significant first, are the bytes at pos, and advance pos by
\* exactly 2 / 4.
C6_NextIntBounds ==
    [][/\ last'.op = "next_u16" =>
            IF Len(buf) - pos < 2
            THEN ~last'.ret.some /\ pos' = pos
            ELSE /\ last'.ret.some
                 /\ last'.ret.val \div 256 = buf[pos + 1]
                 /\ last'.ret.val % 256 = buf[pos + 2]
                 /\ pos' = pos + 2
       /\ last'.op = "next_u32" =>
            IF Len(buf) - pos < 4
            THEN ~last'.ret.some /\ pos' = pos
            ELSE /\ last'.ret.some
                 /\ last'.ret.val.hi \div 256 = buf[pos + 1]
                 /\ last'.ret.val.hi % 256 = buf[pos + 2]
                 /\ last'.ret.val.lo \div 256 = buf[pos + 3]
                 /\ last'.ret.val.lo % 256 = buf[pos + 4]
                 /\ pos' = pos + 4]_vars

\* C6 witness: next_u32 has read 0xFFFF00FF from the last four bytes of a
\* five-byte buffer.
C6_Witness ==
    /\ last.op = "next_u32"
    /\ last.ret = Some([hi |-> 65535, lo |-> 255])
    /\ Len(buf) = 5
    /\ pos = 5

\* C7: write_u16 / write_u32 either return true, having stored all 2 / 4
\* bytes most significant first at the old position, advanced pos by 2 / 4
\* and left every other byte as it was, or return false having changed
\* neither the buffer nor pos.
C7_WriteAtomic ==
    [][/\ last'.op = "write_u16" =>
            \/ /\ last'.ret
               /\ Len(buf') = Len(buf)
               /\ pos + 2 <= Len(buf)
               /\ buf'[pos + 1] = last'.arg \div 256
               /\ buf'[pos + 2] = last'.arg % 256
               /\ \A i \in (1..Len(buf)) \ {pos + 1, pos + 2} : buf'[i] = buf[i]
               /\ pos' = pos + 2
            \/ /\ ~last'.ret
               /\ Len(buf) - pos < 2
               /\ buf' = buf
               /\ pos' = pos
       /\ last'.op = "write_u32" =>
            \/ /\ last'.ret
               /\ Len(buf') = Len(buf)
               /\ pos + 4 <= Len(buf)
               /\ buf'[pos + 1] = last'.arg.hi \div 256
               /\ buf'[pos + 2] = last'.arg.hi % 256
               /\ buf'[pos + 3] = last'.arg.lo \div 256
               /\ buf'[pos + 4] = last'.arg.lo % 256
               /\ \A i \in (1..Len(buf)) \ ((pos + 1)..(pos + 4)) : buf'[i] = buf[i]
               /\ pos' = pos + 4
            \/ /\ ~last'.ret
               /\ Len(buf) - pos < 4
               /\ buf' = buf
               /\ pos' = pos]_vars

\* C7 witness: a write_u32 was refused with one to three bytes of room left.
C7_Witness ==
    /\ last.op = "write_u32"
    /\ ~last.ret
    /\ Len(buf) - pos >= 1
    /\ Len(buf) - pos <= 3

\* C8: after a successful write_u32(v) at p (write_u16(v) likewise), seek(p)
\* followed by next_u32() (next_u16()) yields exactly v.
C8_RoundTrip ==
    [][/\ (last'.op = "write_u32" /\ last'.ret) =>
            LET s == seek(buf', pos', pos)
            IN s.ret /\ next_u32(buf', s.pos).ret = Some(last'.arg)
       /\ (last'.op = "write_u16" /\ last'.ret) =>
            LET s == seek(buf', pos', pos)
            IN s.ret /\ next_u16(buf', s.pos).ret = Some(last'.arg)]_vars

\* C8 witness: write_u32(0xFFFF00FF) has succeeded at position 1.
C8_Witness ==
    /\ last.op = "write_u32"
    /\ last.ret
    /\ last.arg = [hi |-> 65535, lo |-> 255]
    /\ pos = 5

\* C9: 0 <= pos <= len in every state; seek(p) succeeds iff p <= len, a
\* successful seek sets pos to p, and a failed seek or advance leaves pos
\* unchanged.
C9_CursorInBounds ==
    /\ pos >= 0 /\ pos <= Len(buf)
    /\ [][/\ pos' >= 0 /\ pos' <= Len(buf')
          /\ last'.op = "seek" =>
               /\ last'.ret <=> (last'.arg >= 0 /\ last'.arg <= Len(buf))
               /\ pos' = IF last'.ret THEN last'.arg ELSE pos
          /\ (last'.op = "advance" /\ ~last'.ret) => pos' = pos]_vars

\* C9 witness: a seek past the end has failed with the cursor at the end of
\* a non-empty buffer.
C9_Witness ==
    /\ last.op = "seek"
    /\ ~last.ret
    /\ pos = Len(buf)
    /\ pos > 0

C11_ErrorIsolation ==
    [][\A t \in DOMAIN requests' :
         (requests'[t].state = "Error"
            /\ (t \in DOMAIN requests => requests[t].state # "Error")) =>
            /\ map' = map
            /\ keys' = keys
            /\ DOMAIN requests' = DOMAIN requests
            /\ \A u \in (DOMAIN requests) \ {t} : requests'[u] = requests[u]]_vars

\* C11 witness: a receive error has ended one request while the other is
\* still in flight.
C11_Witness ==
    /\ last.op = "receive"
    /\ last.io = "error"
    /\ requests[last.token].state = "Error"
    /\ \E u \in DOMAIN requests : requests[u].state \in {"Accepted", "Forwarded"}

\* The index is in ascending order of expiry.
Sorted(ks) == \A i, j \in 1..Len(ks) : i < j => ks[i].expiry <= ks[j].expiry

\* C12: the expiry index is sorted in ascending order of expiry in every
\* reachable state, so the front-to-back walk of remove_expired, which stops
\* at the first projection with expiry > now, takes out of the map the key
\* of every projection with expiry <= now.
C12_IndexSorted ==
    /\ Sorted(keys)
    /\ \A i \in 1..Len(keys) :
          keys[i].expiry <= now =>
             keys[i].key \notin DOMAIN remove_expired_map(map, keys, now)

\* C12 witness: an upsert has put its projection, inserted at the front,
\* behind a projection of another key that expires earlier.
C12_Witness ==
    /\ last.op = "upsert"
    /\ Len(keys) = 2
    /\ keys[1].key # last.key
    /\ keys[2].key = last.key
    /\ keys[1].expiry < keys[2].expiry

\* C13: a remove_expired pass removes an entry from the map only when that
\* entry's own expiry is <= now: an entry that get returned before the pass
\* and whose expiry is still > now is returned by get after the pass.
C13_LiveEntrySurvives ==
    [][last'.op = "remove_expired" =>
         \A key \in CacheKeys :
            \A e \in get(key) : e.expiry > now => get(key)' = {e}]_vars

\* C14: the value returned by remove_expired is the number of entries the
\* call removed from the map, len() before the call minus len() after it.
C14_ReturnCountsRemoved ==
    [][last'.op = "remove_expired" => last'.ret = len - len']_vars

\* C15: get(key) performs no expiry check and no mutation: a call leaves the
\* map and the expiry index as they were, and for a stored entry whose expiry
\* has passed (no upsert or remove_expired has swept it yet) it returns that
\* entry.
C15_GetReadsStale ==
    [][last'.op = "get" =>
         /\ map' = map
         /\ keys' = keys
         /\ \A key \in DOMAIN map :
               map[key].expiry <= now => get(key)' = {map[key]}]_vars

\* C15 witness: get has been called while the map holds an entry whose expiry
\* lies in the past, and get returns it.
C15_Witness ==
    /\ last.op = "get"
    /\ \E key \in DOMAIN map : map[key].expiry < now /\ get(key) = {map[key]}

\* C16: for an entry created at time c with TTL t (expiry = c + t), calc_ttl
\* at time now returns floor(c + t - now) in whole seconds while now < c + t
\* and 0 from c + t on; the result never exceeds t and does not increase as
\* the clock advances.
C16_CalcTtl ==
    [][\A key \in DOMAIN map :
         LET e == map[key]
             c == e.expiry - e.ttl * TicksPerSec
             left == c + e.ttl * TicksPerSec - now
             r == calc_ttl(e)
         IN /\ last'.op = "calc_ttl" =>
                 /\ now < e.expiry =>
                       /\ r * TicksPerSec <= left
                       /\ left < (r + 1) * TicksPerSec
                 /\ now >= e.expiry => r = 0
                 /\ r <= e.ttl
            /\ last'.op = "tick" => calc_ttl(e)' <= r]_vars

\* C16 witness: calc_ttl has been called while one stored entry, of TTL 2,
\* has a second and a half left and yields 1, and another stored entry is
\* past its expiry and yields 0.
C16_Witness ==
    /\ last.op = "calc_ttl"
    /\ \E k1, k2 \in DOMAIN map :
          /\ map[k1].ttl = 2
          /\ 2 * (map[k1].expiry - now) = 3 * TicksPerSec
          /\ calc_ttl(map[k1]) = 1
          /\ map[k2].expiry < now
          /\ calc_ttl(map[k2]) = 0

\* C17: write_bytes(slice) is all-or-nothing: when pos + the slice's length
\* exceeds len it returns false and leaves buffer and pos alone; otherwise it
\* returns true, each inner write_u8 succeeds, the slice's bytes lie in order
\* from the old pos on, every other byte is as before, and pos has advanced
\* by the slice's length.
C17_WriteBytesAllOrNothing ==
    [][last'.op = "write_bytes" =>
         LET bytes == last'.arg
             n == Len(bytes)
         IN IF pos + n > Len(buf)
            THEN /\ last'.ret = FALSE
                 /\ buf' = buf
                 /\ pos' = pos
            ELSE /\ last'.ret = TRUE
                 /\ \A i \in 1..n : write_u8(buf, pos + i - 1, bytes[i]).ret
                 /\ pos' = pos + n
                 /\ Len(buf') = Len(buf)
                 /\ \A j \in 1..Len(buf) :
                       buf'[j] = IF pos < j /\ j <= pos + n
                                 THEN bytes[j - pos]
                                 ELSE buf[j]]_vars

\* C17 witness: a three-byte slice has been written behind the start of the
\* buffer and the cursor stands after it.
C17_Witness ==
    /\ last.op = "write_bytes"
    /\ last.ret = TRUE
    /\ last.arg = <<0, 255, 255>>
    /\ pos > 3
    /\ SubSeq(buf, pos - 2, pos) = last.arg

\* C18: a would-block result causes no transition: a zero-byte send in
\* Accepted and a receive without data in Forwarded leave the request in its
\* state, with its interest and its deadline registration as they were, so
\* that the next readiness event finds it where it was.
C18_WouldBlockStays ==
    [][(last'.op \in {"forward", "receive"} /\ last'.io = "would_block") =>
         /\ requests'[last'.token] = requests[last'.token]
         /\ requests'[last'.token].state =
               (IF last'.op = "forward" THEN "Accepted" ELSE "Forwarded")
         /\ requests'[last'.token].deadline = (last'.op = "receive")]_vars

\* C18 witness: a send has returned zero bytes and the request waits in
\* Accepted, without a deadline, for the next writable event.
C18_Witness ==
    /\ last.op = "forward"
    /\ last.io = "would_block"
    /\ requests[last.token].state = "Accepted"
    /\ requests[last.token].interest = "writable"
    /\ ~requests[last.token].deadline

\* C19: every entry stored in the map has a projection in the expiry index
\* with the entry's key and the entry's expiry, so that a remove_expired pass
\* leaves no entry in the map whose expiry is <= now.
C19_EntryHasProjection ==
    /\ \A key \in DOMAIN map :
          \E i \in 1..Len(keys) :
             keys[i] = CacheExpiry_new(key, map[key].expiry)
    /\ last.op = "remove_expired" =>
          \A key \in DOMAIN map : map[key].expiry > now

\* C19 witness: a pass has removed a projection and left a stored entry,
\* which has its projection in the index.
C19_Witness ==
    /\ last.op = "remove_expired"
    /\ last.ret >= 1
    /\ \E key \in DOMAIN map :
          \E i \in 1..Len(keys) :
             keys[i] = CacheExpiry_new(key, map[key].expiry)

\* C20: under fair delivery of readiness and deadline events every request
\* that has been created eventually reaches Complete or Error, also when its
\* upstream socket never accepts the send and when its upstream never
\* replies.
C20_EventuallyTerminal ==
    \A t \in Tokens :
        (t \in DOMAIN requests) ~>
           (t \in DOMAIN requests /\ requests[t].state \in Terminal)

=============================================================================
